---- MODULE Spec2Model ----
(***************************************************************************)
(* A model of the WebP container decoder of src/webp/decoder.rs: the nom   *)
(* grammar (chunk_size, the seven tagged chunks, extended, webp_body,      *)
(* webp_file) as operators over byte sequences, and the WebpDecoder        *)
(* adapter (read_metadata and the five ImageDecoder accessors) as a state  *)
(* machine.  Bytes are naturals 0..255, a slice is a sequence of bytes.    *)
(***************************************************************************)
EXTENDS Integers, Sequences, FiniteSets, TLC

VARIABLES
    gen,           \* how the input file was put together (never changes)
    file,          \* the bytes the reader was constructed over (never changes)
    r,             \* WebpDecoder.r: the bytes the reader has not delivered yet
    frame,         \* WebpDecoder.frame
    have_frame,    \* WebpDecoder.have_frame
    decoded_rows,  \* WebpDecoder.decoded_rows
    ret,           \* what the last accessor call returned
    image,         \* the IResult of the last run of webp_file
    handed,        \* the bytes last handed to VP8Decoder (history)
    reads,         \* number of read_to_end calls so far (history)
    decodes,       \* number of decode_frame calls so far (history)
    chunk          \* the IResult of the last direct application of chunk_size

vars == <<gen, file, r, frame, have_frame, decoded_rows, ret, image, handed,
          reads, decodes, chunk>>

(***************************************************************************)
(* Bounds of the model.                                                    *)
(***************************************************************************)
MaxBody  == 2   \* chunk bodies have 0..MaxBody bytes
MaxShort == 1   \* up to MaxShort bytes are cut off the end of the form body
MaxDelta == 1   \* the declared form size is off by at most MaxDelta
MaxW     == 2   \* decoded frames are 0..MaxW wide
MaxH     == 2   \* decoded frames are 0..MaxH high
MaxBuf   == 2   \* read_scanline is given buffers of 0..MaxBuf bytes
MaxReads == 3   \* read_to_end is called at most MaxReads times
MaxRest  == 4   \* chunk_size is applied to buffers with up to MaxRest bytes
                \* after the length field

(***************************************************************************)
(* Slices.                                                                 *)
(***************************************************************************)
Drop(s, n) == SubSeq(s, n + 1, Len(s))
Take(s, n) == SubSeq(s, 1, n)
Min(a, b)  == IF a < b THEN a ELSE b

(***************************************************************************)
(* The 4-byte ASCII tags.                                                  *)
(***************************************************************************)
RIFF == <<82, 73, 70, 70>>
WEBP == <<87, 69, 66, 80>>
VP8  == <<86, 80, 56, 32>>
VP8L == <<86, 80, 56, 76>>
VP8X == <<86, 80, 56, 88>>
ICCP == <<73, 67, 67, 80>>
ALPH == <<65, 76, 80, 72>>
EXIF == <<69, 88, 73, 70>>
XMP  == <<88, 77, 80, 32>>
ANIM == <<65, 78, 73, 77>>   \* a tag the grammar has no recognizer for
RIFX == <<82, 73, 70, 88>>   \* a wrong envelope tag
WEBQ == <<87, 69, 66, 81>>   \* a wrong form tag

(***************************************************************************)
(* nom's IResult.  Done(rest, o) carries the remaining input and the       *)
(* output; Error carries the ErrorKind; the Needed of Incomplete is never  *)
(* read by the decoder and is left out.  All three have the same fields so *)
(* that results can be compared.                                           *)
(***************************************************************************)
Done(rest, o) == [t |-> "Done", kind |-> "", rest |-> rest, o |-> o]
Error(kind)   == [t |-> "Error", kind |-> kind, rest |-> <<>>, o |-> <<>>]
Incomplete    == [t |-> "Incomplete", kind |-> "", rest |-> <<>>, o |-> <<>>]

\* enum ImageData; c is the first slice, a the second (LossyWithAlpha only)
Lossy(c)             == [v |-> "Lossy", c |-> c, a |-> <<>>]
Lossless(c)          == [v |-> "Lossless", c |-> c, a |-> <<>>]
LossyWithAlpha(c, a) == [v |-> "LossyWithAlpha", c |-> c, a |-> a]
NoImage              == [v |-> "None", c |-> <<>>, a |-> <<>>]

\* the same three results for the parsers whose output is an ImageData
DoneI(rest, img) == [t |-> "Done", kind |-> "", rest |-> rest, o |-> img]
ErrorI(kind)     == [t |-> "Error", kind |-> kind, rest |-> <<>>, o |-> NoImage]
IncompleteI      == [t |-> "Incomplete", kind |-> "", rest |-> <<>>, o |-> NoImage]
\* a failed byte-slice result seen as a failed ImageData result
AsImage(res) == IF res.t = "Error" THEN ErrorI(res.kind) ELSE IncompleteI

(***************************************************************************)
(* nom primitives.                                                         *)
(***************************************************************************)
\* tag!(bytes): compares the first min(len, 4) bytes; a mismatch is an
\* Error, a proper prefix of the tag is Incomplete
tag(bytes, i) ==
    LET m == Min(Len(i), Len(bytes)) IN
    IF Take(i, m) # Take(bytes, m) THEN Error("Tag")
    ELSE IF m < Len(bytes) THEN Incomplete
    ELSE Done(Drop(i, Len(bytes)), Take(i, m))

\* le_u32: four bytes, least significant first
le_u32(i) ==
    IF Len(i) < 4 THEN Incomplete
    ELSE Done(Drop(i, 4),
              i[1] + 256 * i[2] + 65536 * i[3] + 16777216 * i[4])

\* take!(n)
take(n, i) ==
    IF Len(i) < n THEN Incomplete ELSE Done(Drop(i, n), Take(i, n))

\* complete! left out: an Incomplete stays Incomplete
complete_off(res) == res

\* complete!(p): Incomplete becomes an Error
complete(res) == IF res.t = "Incomplete" THEN Error("Complete") ELSE res

\* opt!(p) applied at i: an Error of p is Done with None and the input left
\* at i; Done and Incomplete stay as they are (the output is never used)
opt(res, i) == IF res.t = "Error" THEN Done(i, <<>>) ELSE res

\* alt!(a | b): the first alternative that is Done or Incomplete wins
alt(a, b) == IF a.t \in {"Done", "Incomplete"} THEN a ELSE b

(***************************************************************************)
(* The grammar.  In a do_parse!, chain! or preceded! a parser that is not  *)
(* Done ends the sequence with its Error or Incomplete.                    *)
(***************************************************************************)
\* chunk_size without the cond!(len % 2 != 0, take!(1))
chunk_size_nopad(i) ==
    LET len == le_u32(i) IN
    IF len.t # "Done" THEN len ELSE take(len.o, len.rest)

chunk_size(i) ==
    LET len == le_u32(i) IN
    IF len.t # "Done" THEN len
    ELSE LET result == take(len.o, len.rest) IN
         IF result.t # "Done" THEN result
         ELSE IF len.o % 2 # 0
              THEN LET pad == take(1, result.rest) IN
                   IF pad.t # "Done" THEN pad
                   ELSE Done(pad.rest, result.o)
              ELSE Done(result.rest, result.o)

\* preceded!(tag!(t), chunk_size)
tagged_chunk(t, i) ==
    LET h == tag(t, i) IN
    IF h.t # "Done" THEN h ELSE chunk_size(h.rest)

vp8_chunk(i)  == tagged_chunk(VP8, i)
vp8l_chunk(i) == tagged_chunk(VP8L, i)
vp8x_chunk(i) == tagged_chunk(VP8X, i)
iccp_chunk(i) == tagged_chunk(ICCP, i)
alph_chunk(i) == tagged_chunk(ALPH, i)
exif_chunk(i) == tagged_chunk(EXIF, i)
xmp_chunk(i)  == tagged_chunk(XMP, i)

\* map!(vp8l_chunk, ImageData::Lossy): the wrong constructor
map_lossless_as_lossy(res) ==
    IF res.t = "Done" THEN DoneI(res.rest, Lossy(res.o)) ELSE AsImage(res)

\* map!(p, f) for the ImageData constructors
map_lossy(res)    == IF res.t = "Done" THEN DoneI(res.rest, Lossy(res.o))
                     ELSE AsImage(res)
map_lossless(res) == IF res.t = "Done" THEN DoneI(res.rest, Lossless(res.o))
                     ELSE AsImage(res)

\* the closure of the chain! written as LossyWithAlpha(a, rgb)
pair_swapped(a, rgb) ==
    IF rgb.t # "Done" THEN AsImage(rgb)
    ELSE DoneI(rgb.rest, LossyWithAlpha(a.o, rgb.o))

\* the end of chain!(a : alph_chunk ~ rgb : vp8_chunk, ..), with a Done
pair(a, rgb) ==
    IF rgb.t # "Done" THEN AsImage(rgb)
    ELSE DoneI(rgb.rest, LossyWithAlpha(rgb.o, a.o))

\* chain!(a : alph_chunk ~ rgb : vp8_chunk, || LossyWithAlpha(rgb, a))
alpha_pair(i) ==
    LET a == alph_chunk(i) IN
    IF a.t # "Done" THEN AsImage(a) ELSE pair(a, vp8_chunk(a.rest))

\* the alt! of extended without the rollback: once alph_chunk is Done the
\* other alternatives are tried after the ALPH chunk
image_data_advancing(i) ==
    LET a == alph_chunk(i) IN
    IF a.t # "Done"
    THEN alt(AsImage(a),
             alt(map_lossy(vp8_chunk(i)),
                 alt(map_lossless(vp8l_chunk(i)), ErrorI("Alt"))))
    ELSE alt(pair(a, vp8_chunk(a.rest)),
             alt(map_lossy(vp8_chunk(a.rest)),
                 alt(map_lossless(vp8l_chunk(a.rest)), ErrorI("Alt"))))

\* the alt! of extended: every alternative starts at the same input i
image_data(i) ==
    alt(alpha_pair(i),
        alt(map_lossy(vp8_chunk(i)),
            alt(map_lossless(vp8l_chunk(i)), ErrorI("Alt"))))

\* the end of extended followed by eof!(): bytes left after the trailing
\* metadata are an Error
metadata_to_end(img) ==
    IF img.t # "Done" THEN img
    ELSE LET e == opt(complete(exif_chunk(img.rest)), img.rest) IN
         IF e.t # "Done" THEN AsImage(e)
         ELSE LET xm == opt(complete(xmp_chunk(e.rest)), e.rest) IN
              IF xm.t # "Done" THEN AsImage(xm)
              ELSE IF xm.rest # <<>> THEN ErrorI("Eof")
              ELSE DoneI(xm.rest, img.o)

\* the end of extended with opt!(xmp_chunk) in place of
\* opt!(complete!(xmp_chunk))
metadata_xmp_incomplete(img) ==
    IF img.t # "Done" THEN img
    ELSE LET e == opt(complete(exif_chunk(img.rest)), img.rest) IN
         IF e.t # "Done" THEN AsImage(e)
         ELSE LET xm == opt(xmp_chunk(e.rest), e.rest) IN
              IF xm.t # "Done" THEN AsImage(xm)
              ELSE DoneI(xm.rest, img.o)

\* the end of extended, from the result img of its alt!:
\* opt!(complete!(exif_chunk)) ~ opt!(complete!(xmp_chunk)), || {image_data}
metadata(img) ==
    IF img.t # "Done" THEN img
    ELSE LET e == opt(complete(exif_chunk(img.rest)), img.rest) IN
         IF e.t # "Done" THEN AsImage(e)
         ELSE LET xm == opt(complete(xmp_chunk(e.rest)), e.rest) IN
              IF xm.t # "Done" THEN AsImage(xm)
              ELSE DoneI(xm.rest, img.o)

\* extended with a second opt!(iccp_chunk)
extended_two_iccp(i) ==
    LET x == vp8x_chunk(i) IN
    IF x.t # "Done" THEN AsImage(x)
    ELSE LET ic == opt(iccp_chunk(x.rest), x.rest) IN
         IF ic.t # "Done" THEN AsImage(ic)
         ELSE LET ic2 == opt(iccp_chunk(ic.rest), ic.rest) IN
              IF ic2.t # "Done" THEN AsImage(ic2)
              ELSE metadata(image_data(ic2.rest))

extended(i) ==
    LET x == vp8x_chunk(i) IN
    IF x.t # "Done" THEN AsImage(x)
    ELSE LET ic == opt(iccp_chunk(x.rest), x.rest) IN
         IF ic.t # "Done" THEN AsImage(ic)
         ELSE metadata(image_data(ic.rest))

\* the two simple alternatives with their constructors exchanged
webp_body_swapped(i) ==
    alt(map_lossless(vp8_chunk(i)),
        alt(map_lossy(vp8l_chunk(i)),
            alt(extended(i), ErrorI("Alt"))))

webp_body(i) ==
    alt(map_lossy(vp8_chunk(i)),
        alt(map_lossless(vp8l_chunk(i)),
            alt(extended(i), ErrorI("Alt"))))

\* the size field is read but the form body is taken to be all that follows
length_bytes_rest(i) ==
    LET nb == le_u32(i) IN
    IF nb.t # "Done" THEN nb
    ELSE IF Len(nb.rest) < nb.o THEN Incomplete
    ELSE Done(<<>>, nb.rest)

\* length_bytes!(le_u32)
length_bytes(i) ==
    LET nb == le_u32(i) IN
    IF nb.t # "Done" THEN nb
    ELSE IF Len(nb.rest) < nb.o THEN Incomplete
    ELSE Done(Drop(nb.rest, nb.o), Take(nb.rest, nb.o))

\* the form tag is skipped without being compared
webp_form_anytag(i) ==
    LET h == take(4, i) IN
    IF h.t # "Done" THEN AsImage(h) ELSE webp_body(h.rest)

\* preceded!(tag!("WEBP"), webp_body)
webp_form(i) ==
    LET h == tag(WEBP, i) IN
    IF h.t # "Done" THEN AsImage(h) ELSE webp_body(h.rest)

\* flat_map! with an inner parser that has to use up the bytes p returned
flat_map_exact(form, body) ==
    IF body.t # "Done" THEN body
    ELSE IF body.rest # <<>> THEN ErrorI("Eof")
    ELSE DoneI(form.rest, body.o)

\* flat_map!(p, q): q runs on the bytes p returned; the input goes on after p
flat_map(form, body) ==
    IF body.t # "Done" THEN body ELSE DoneI(form.rest, body.o)

webp_file(i) ==
    LET h == tag(RIFF, i) IN
    IF h.t # "Done" THEN AsImage(h)
    ELSE LET form == length_bytes(h.rest) IN
         IF form.t # "Done" THEN AsImage(form)
         ELSE flat_map(form, webp_form(form.o))

\* whether webp_file gets as far as applying webp_body: the RIFF tag, the
\* length-prefixed form and the WEBP tag are all Done
dispatches(i) ==
    LET h == tag(RIFF, i) IN
    /\ h.t = "Done"
    /\ LET form == length_bytes(h.rest) IN
       /\ form.t = "Done"
       /\ tag(WEBP, form.o).t = "Done"

(***************************************************************************)
(* How read_metadata surfaces an IResult of webp_file as an ImageError.    *)
(***************************************************************************)
surface(res) ==
    CASE res.t = "Done" /\ res.o.v = "Lossless" -> "UnsupportedError"
      [] res.t = "Done"                         -> ""
      [] res.t = "Error"                        -> "FormatError"
      [] res.t = "Incomplete"                   -> "NotEnoughData"

(***************************************************************************)
(* The external bitstream decoder (super::vp8).  decode_frame either fails *)
(* or returns a Frame: a width, a height and a row-major luma buffer of    *)
(* width * height bytes.  Pixel p of the buffer holds the value p, so that *)
(* every row of a frame is different from every other.                     *)
(***************************************************************************)
DefaultFrame == [width |-> 0, height |-> 0, ybuf |-> <<>>]
Frame(w, h)  == [width |-> w, height |-> h, ybuf |-> [p \in 1..(w * h) |-> p]]
DecodeFailed == [ok |-> FALSE, frame |-> DefaultFrame]
DecodeOutcomes ==
    {[ok |-> TRUE, frame |-> Frame(w, h)] : w \in 0..MaxW, h \in 0..MaxH}
    \cup {DecodeFailed}
\* the outcomes a call has to reckon with: once have_frame is set the
\* decoder is out of reach and its outcome is immaterial
Outcomes == IF have_frame THEN {DecodeFailed} ELSE DecodeOutcomes

(***************************************************************************)
(* The adapter.  An operator computes the fields a call of read_metadata   *)
(* leaves behind, given the outcome d the bitstream decoder would produce. *)
(***************************************************************************)
\* the adapter's fields as a record; err is the error of the call, if any
Fields == [r |-> r, frame |-> frame, have_frame |-> have_frame,
           image |-> image, handed |-> handed, reads |-> reads,
           decodes |-> decodes, err |-> ""]

\* read_vp8_frame(framedata) on the fields s
read_vp8_frame(s, framedata, d) ==
    IF d.ok
    THEN [s EXCEPT !.handed = framedata, !.decodes = s.decodes + 1,
                   !.frame = d.frame]
    ELSE [s EXCEPT !.handed = framedata, !.decodes = s.decodes + 1,
                   !.err = "DecodeError"]

\* the same with a reader that delivers its bytes again on the next call
after_read_rewound(res) ==
    [Fields EXCEPT !.reads = reads + 1, !.image = res]

\* the fields after read_to_end and webp_file gave res
after_read(res) ==
    [Fields EXCEPT !.r = <<>>, !.reads = reads + 1, !.image = res]

\* the match on webp_file's result, without self.have_frame = true
match_image_uncached(res, d) ==
    IF res.t = "Done" /\ res.o.v \in {"Lossy", "LossyWithAlpha"}
    THEN read_vp8_frame(after_read(res), res.o.c, d)
    ELSE [after_read(res) EXCEPT !.err = surface(res)]

\* the match on webp_file's result
match_image(res, d) ==
    IF res.t = "Done" /\ res.o.v \in {"Lossy", "LossyWithAlpha"}
    THEN IF d.ok
         THEN [read_vp8_frame(after_read(res), res.o.c, d)
                 EXCEPT !.have_frame = TRUE]
         ELSE read_vp8_frame(after_read(res), res.o.c, d)
    ELSE [after_read(res) EXCEPT !.err = surface(res)]

\* read_metadata without the if !self.have_frame
read_metadata_unguarded(d) == match_image(webp_file(r), d)

\* read_metadata with a memory of the failure: only the first call reads and
\* parses, a later call on an Unparsed adapter fails without reading
read_metadata_once(d) ==
    IF have_frame THEN Fields
    ELSE IF reads = 0 THEN match_image(webp_file(r), d)
    ELSE [Fields EXCEPT !.err = "NotEnoughData"]

read_metadata(d) ==
    IF ~have_frame THEN match_image(webp_file(r), d) ELSE Fields

\* the fields read_metadata leaves behind become the adapter's fields
Store(s) ==
    /\ r' = s.r
    /\ frame' = s.frame
    /\ have_frame' = s.have_frame
    /\ image' = s.image
    /\ handed' = s.handed
    /\ reads' = s.reads
    /\ decodes' = s.decodes

\* what an accessor returns: Ok(val), Err(err), or a panic; buf is the
\* caller's buffer after read_scanline, arg the length of that buffer
Ok(op, val)     == [op |-> op, t |-> "Ok", err |-> "", val |-> val,
                    buf |-> <<>>, arg |-> 0]
Err(op, err)    == [op |-> op, t |-> "Err", err |-> err, val |-> <<>>,
                    buf |-> <<>>, arg |-> 0]
NoCall          == [op |-> "", t |-> "None", err |-> "", val |-> <<>>,
                    buf |-> <<>>, arg |-> 0]
NotRun          == [t |-> "None", kind |-> "", rest |-> <<>>, o |-> NoImage]
NoChunk         == [t |-> "None", kind |-> "", rest |-> <<>>, o |-> <<>>]

\* a call can be made unless the program has panicked; the number of
\* read_to_end calls is capped
Callable == /\ ret.t # "Panic"
            /\ have_frame \/ reads < MaxReads

dimensions ==
    /\ Callable
    /\ \E d \in Outcomes : \E s \in {read_metadata(d)} :
         /\ Store(s)
         /\ ret' = IF s.err # "" THEN Err("dimensions", s.err)
                   ELSE Ok("dimensions", <<s.frame.width, s.frame.height>>)
    /\ UNCHANGED <<gen, file, decoded_rows, chunk>>

colortype ==
    /\ Callable
    /\ ret' = Ok("colortype", <<"Gray", 8>>)
    /\ UNCHANGED <<gen, file, r, frame, have_frame, decoded_rows, image,
                   handed, reads, decodes, chunk>>

row_len ==
    /\ Callable
    /\ \E d \in Outcomes : \E s \in {read_metadata(d)} :
         /\ Store(s)
         /\ ret' = IF s.err # "" THEN Err("row_len", s.err)
                   ELSE Ok("row_len", <<s.frame.width>>)
    /\ UNCHANGED <<gen, file, decoded_rows, chunk>>

\* the scanline part with the increment ahead of the check against the
\* height: a call that fails with ImageEnd moves the cursor as well
scanline_counting_failures(s, rlen) ==
    LET start == decoded_rows * rlen IN
    IF decoded_rows > s.frame.height
    THEN [ret |-> [Err("read_scanline", "ImageEnd") EXCEPT !.arg = rlen],
          decoded_rows |-> decoded_rows + 1]
    ELSE IF start + rlen > Len(s.frame.ybuf)
    THEN [ret |-> [op |-> "read_scanline", t |-> "Panic", err |-> "",
                   val |-> <<>>, buf |-> <<>>, arg |-> rlen],
          decoded_rows |-> decoded_rows]
    ELSE [ret |-> [Ok("read_scanline", <<decoded_rows + 1>>) EXCEPT
                     !.buf = SubSeq(s.frame.ybuf, start + 1, start + rlen),
                     !.arg = rlen],
          decoded_rows |-> decoded_rows + 1]

\* the scanline part of read_scanline, after read_metadata succeeded with
\* fields s: the check against the height, the slice of ybuf (which panics
\* when it is out of range), the copy and the increment
scanline(s, rlen) ==
    LET start == decoded_rows * rlen IN
    IF decoded_rows > s.frame.height
    THEN [ret |-> [Err("read_scanline", "ImageEnd") EXCEPT !.arg = rlen],
          decoded_rows |-> decoded_rows]
    ELSE IF start + rlen > Len(s.frame.ybuf)
    THEN [ret |-> [op |-> "read_scanline", t |-> "Panic", err |-> "",
                   val |-> <<>>, buf |-> <<>>, arg |-> rlen],
          decoded_rows |-> decoded_rows]
    ELSE [ret |-> [Ok("read_scanline", <<decoded_rows + 1>>) EXCEPT
                     !.buf = SubSeq(s.frame.ybuf, start + 1, start + rlen),
                     !.arg = rlen],
          decoded_rows |-> decoded_rows + 1]

read_scanline ==
    /\ Callable
    /\ \E rlen \in 0..MaxBuf, d \in Outcomes : \E s \in {read_metadata(d)} :
         /\ Store(s)
         /\ IF s.err # ""
            THEN /\ ret' = [Err("read_scanline", s.err) EXCEPT !.arg = rlen]
                 /\ decoded_rows' = decoded_rows
            ELSE \E out \in {scanline(s, rlen)} :
                 /\ ret' = out.ret
                 /\ decoded_rows' = out.decoded_rows
    /\ UNCHANGED <<gen, file, chunk>>

\* read_image with a rewind of the scanline cursor
read_image_rewinding ==
    /\ Callable
    /\ \E d \in Outcomes : \E s \in {read_metadata(d)} :
         /\ Store(s)
         /\ ret' = IF s.err # "" THEN Err("read_image", s.err)
                   ELSE Ok("read_image", s.frame.ybuf)
    /\ decoded_rows' = 0
    /\ UNCHANGED <<gen, file, chunk>>

read_image ==
    /\ Callable
    /\ \E d \in Outcomes : \E s \in {read_metadata(d)} :
         /\ Store(s)
         /\ ret' = IF s.err # "" THEN Err("read_image", s.err)
                   ELSE Ok("read_image", s.frame.ybuf)
    /\ UNCHANGED <<gen, file, decoded_rows, chunk>>

(***************************************************************************)
(* Input files.  A file is the envelope around a sequence of chunks; the   *)
(* body of the k-th chunk has the bytes 16k+1, 16k+2, ...                  *)
(***************************************************************************)
LE32(n) == <<n % 256, (n \div 256) % 256, (n \div 65536) % 256,
             (n \div 16777216) % 256>>
Body(k, n) == [j \in 1..n |-> 16 * k + j]
Chunk(t, body, pad) ==
    t \o LE32(Len(body)) \o body \o (IF Len(body) % 2 # 0 THEN <<pad>> ELSE <<>>)

Heads    == {<<>>, <<VP8X>>, <<VP8X, ICCP>>, <<VP8X, ICCP, ICCP>>,
             <<VP8X, ANIM>>, <<ANIM>>}
Payloads == {<<>>, <<VP8>>, <<VP8L>>, <<ALPH, VP8>>, <<ALPH, VP8L>>, <<ALPH>>}
Trailers == {<<>>, <<EXIF>>, <<XMP>>, <<EXIF, XMP>>, <<XMP, EXIF>>, <<ANIM>>}
Shapes   == {h \o p \o t : h \in Heads, p \in Payloads, t \in Trailers}
PadBytes == {0, 255}

\* the length of the body of the k-th chunk: l0, l0 + step, ... (mod MaxBody+1)
BodyLen(k, l0, step) == (l0 + step * (k - 1)) % (MaxBody + 1)

RECURSIVE Chunks(_, _, _, _, _)
Chunks(shape, k, l0, step, pad) ==
    IF k > Len(shape) THEN <<>>
    ELSE Chunk(shape[k], Body(k, BodyLen(k, l0, step)), pad)
         \o Chunks(shape, k + 1, l0, step, pad)

\* the file: short bytes are cut off the end of the form body and the size
\* field declares delta bytes more than the form body has
File(riff, form, shape, l0, step, pad, short, delta) ==
    LET all  == Chunks(shape, 1, l0, step, pad)
        body == form \o Take(all, Len(all) - Min(short, Len(all)))
        size == IF Len(body) + delta < 0 THEN 0 ELSE Len(body) + delta
    IN  riff \o LE32(size) \o body

Envelopes == {<<RIFF, WEBP>>, <<RIFX, WEBP>>, <<RIFF, WEBQ>>}

\* the ways a file is put together, and the file of each
Gens(envelopes, l0s, steps, pads, shorts, deltas) ==
    [riff : {e[1] : e \in envelopes}, form : {e[2] : e \in envelopes},
     shape : Shapes, l0 : l0s, step : steps, pad : pads, short : shorts,
     delta : deltas]
FileOf(g) ==
    File(g.riff, g.form, g.shape, g.l0, g.step, g.pad, g.short, g.delta)

ParseGens ==
    {g \in Gens(Envelopes, 0..MaxBody, {0, 1}, PadBytes, 0..MaxShort,
                (0 - MaxDelta)..MaxDelta) : <<g.riff, g.form>> \in Envelopes}
AdapterGens == Gens({<<RIFF, WEBP>>}, 0..MaxBody, {1}, {0}, {0}, {0})
\* a buffer that is not a file
NoGen == [riff |-> <<>>, form |-> <<>>, shape |-> <<>>, l0 |-> 0, step |-> 0,
          pad |-> 0, short |-> 0, delta |-> 0]

\* buffers chunk_size is applied to: a length field (or a part of one) and
\* up to MaxRest bytes after it
RECURSIVE Buffers(_)
Buffers(n) ==
    IF n = 0 THEN {<<>>}
    ELSE Buffers(n - 1) \cup
         {Append(b, x) : b \in {c \in Buffers(n - 1) : Len(c) = n - 1},
                         x \in {7, 9}}
LenFields == {LE32(n) : n \in 0..(MaxBody + 1)} \cup {LE32(256), LE32(16777216)}
ChunkBuffers ==
    {l \o b : l \in LenFields, b \in Buffers(MaxRest)}
    \cup {Take(l, n) : l \in LenFields, n \in 0..3}

(***************************************************************************)
(* Specifications.                                                         *)
(***************************************************************************)
\* WebpDecoder::new(r)
new(bytes, g) ==
    /\ gen = g
    /\ file = bytes
    /\ r = bytes
    /\ frame = DefaultFrame
    /\ have_frame = FALSE
    /\ decoded_rows = 0
    /\ ret = NoCall
    /\ image = NotRun
    /\ handed = <<>>
    /\ reads = 0
    /\ decodes = 0
    /\ chunk = NoChunk

\* the adapter over a file, driven by any sequence of accessor calls
Init == \E g \in AdapterGens : new(FileOf(g), g)
Next == dimensions \/ colortype \/ row_len \/ read_scanline \/ read_image
Spec == Init /\ [][Next]_vars

\* webp_file as a pure function of the file
InitParse == \E g \in ParseGens : new(FileOf(g), g)
Parse ==
    /\ image = NotRun
    /\ image' = webp_file(file)
    /\ UNCHANGED <<gen, file, r, frame, have_frame, decoded_rows, ret, handed,
                   reads, decodes, chunk>>
SpecParse == InitParse /\ [][Parse]_vars

\* chunk_size as a pure function of a buffer
InitChunk == \E bytes \in ChunkBuffers : new(bytes, NoGen)
ApplyChunkSize ==
    /\ chunk = NoChunk
    /\ chunk' = chunk_size(file)
    /\ UNCHANGED <<gen, file, r, frame, have_frame, decoded_rows, ret, image,
                   handed, reads, decodes>>
SpecChunk == InitChunk /\ [][ApplyChunkSize]_vars


(***************************************************************************)
(* Helpers of the properties.                                              *)
(***************************************************************************)
\* the little-endian u32 written at bytes p+1..p+4 of f
U32At(f, p) == f[p + 1] + 256 * f[p + 2] + 65536 * f[p + 3] + 16777216 * f[p + 4]
\* what a parse gave, without the input it left over
Outcome(res) == [t |-> res.t, kind |-> res.kind, o |-> res.o]
\* row k (from 0) of a frame
Row(f, k) == SubSeq(f.ybuf, k * f.width + 1, (k + 1) * f.width)
\* the accessors that call read_metadata
ParsingOps == {"dimensions", "row_len", "read_scanline", "read_image"}
\* the step is the first accessor call on a fresh adapter
FirstCall == ret = NoCall /\ ret' # NoCall
\* the envelope of the file is right and nothing is cut or mis-declared
WellFormed == /\ gen.riff = RIFF /\ gen.form = WEBP
              /\ gen.short = 0 /\ gen.delta = 0
\* the length of the body of the k-th chunk of the file, and that body
LenOf(k)  == BodyLen(k, gen.l0, gen.step)
BodyOf(k) == Body(k, LenOf(k))

(***************************************************************************)
(* C1.  With a decoded frame of width W and height H >= 1, a read_scanline *)
(* call with a W-byte buffer that follows k-1 < H such calls succeeds,     *)
(* delivers row k-1 and returns k; the call that follows H such calls      *)
(* fails with ImageEnd.                                                    *)
(***************************************************************************)
\* the step is a read_scanline call with a W-byte buffer (W >= 1) that comes
\* first or right after a successful call of the same kind
ScanlineInSequence ==
    /\ ret'.op = "read_scanline"
    /\ have_frame'
    /\ frame'.height >= 1
    /\ frame'.width >= 1
    /\ ret'.arg = frame'.width
    /\ \/ decoded_rows = 0
       \/ ret.op = "read_scanline" /\ ret.t = "Ok" /\ ret.arg = frame'.width

\* C1: in a run of W-byte read_scanline calls, call k <= H delivers row k-1
\* and returns k, and call H+1 fails with ImageEnd
C1_ScanlinesThenEnd ==
    [][ScanlineInSequence =>
         /\ decoded_rows < frame'.height =>
              /\ ret'.t = "Ok"
              /\ ret'.val = <<decoded_rows + 1>>
              /\ ret'.buf = Row(frame', decoded_rows)
         /\ decoded_rows = frame'.height =>
              /\ ret'.t = "Err"
              /\ ret'.err = "ImageEnd"]_vars

(***************************************************************************)
(* C2.  An extended container that is valid but for its trailing metadata  *)
(* being XMP followed by EXIF.                                             *)
(***************************************************************************)
ExtHeads    == {<<VP8X>>, <<VP8X, ICCP>>}
ExtPayloads == {<<VP8>>, <<VP8L>>, <<ALPH, VP8>>}

\* the ImageData the payload chunks p stand for, when n chunks precede them
Variant(p, n) ==
    CASE p = <<VP8>>  -> Lossy(BodyOf(n + 1))
      [] p = <<VP8L>> -> Lossless(BodyOf(n + 1))
      [] p = <<ALPH, VP8>> -> LossyWithAlpha(BodyOf(n + 2), BodyOf(n + 1))

XmpBeforeExif ==
    /\ WellFormed
    /\ gen.shape \in {h \o p \o <<XMP, EXIF>> : h \in ExtHeads, p \in ExtPayloads}

\* C2 as claimed: with XMP before EXIF the parse fails with an Error
\* (surfaced as FormatError)
C2_SwappedOrderFails ==
    (image # NotRun /\ XmpBeforeExif) => image.t = "Error"

\* C2 as amended: with XMP before EXIF the parse succeeds with the payload;
\* extended consumes the XMP chunk and leaves the EXIF chunk unparsed in the
\* form body
C2_SwappedOrderParses ==
    (image # NotRun /\ WellFormed) =>
      \A h \in ExtHeads, p \in ExtPayloads :
        gen.shape = h \o p \o <<XMP, EXIF>> =>
          /\ image = DoneI(<<>>, Variant(p, Len(h)))
          /\ extended(Drop(file, 12)).rest =
               Chunk(EXIF, BodyOf(Len(gen.shape)), gen.pad)

C2_Witness == image.t = "Done" /\ XmpBeforeExif

(***************************************************************************)
(* C3.  A chunk whose tag matches and whose body (or pad byte) is one byte *)
(* short.  The files are valid up to their last chunk, which has a body of *)
(* at least one byte and loses its last byte; the form size either counts  *)
(* the bytes that are there (delta = 0) or the byte that was cut as well   *)
(* (delta = 1).                                                            *)
(***************************************************************************)
\* the shapes the grammar accepts, by the tag of their last chunk
Reaching(t) ==
    CASE t = VP8X -> {<<VP8X>>}
      [] t = ICCP -> {<<VP8X, ICCP>>}
      [] t = ALPH -> {h \o <<ALPH>> : h \in ExtHeads}
      [] t = VP8  -> {<<VP8>>} \cup {h \o p : h \in ExtHeads,
                                             p \in {<<VP8>>, <<ALPH, VP8>>}}
      [] t = VP8L -> {<<VP8L>>} \cup {h \o <<VP8L>> : h \in ExtHeads}
      [] t = EXIF -> {h \o p \o <<EXIF>> : h \in ExtHeads, p \in ExtPayloads}
      [] t = XMP  -> {h \o p \o m : h \in ExtHeads, p \in ExtPayloads,
                                    m \in {<<XMP>>, <<EXIF, XMP>>}}

\* the last chunk of the file is of type t, is reached by its recognizer and
\* is one byte short
ShortChunk(t) ==
    /\ gen.riff = RIFF /\ gen.form = WEBP
    /\ gen.shape \in Reaching(t)
    /\ LenOf(Len(gen.shape)) >= 1
    /\ gen.short = 1
    /\ gen.delta \in {0, 1}

\* C3 as claimed: for every chunk type the parse fails with Incomplete
\* (surfaced as NotEnoughData)
C3_ShortChunkIsTruncated ==
    image # NotRun =>
      \A t \in {VP8, VP8L, VP8X, ICCP, ALPH, EXIF, XMP} :
        ShortChunk(t) => surface(image) = "NotEnoughData"

\* C3 as amended: that holds for VP8, VP8L, VP8X, ICCP and ALPH, and for
\* EXIF and XMP when the file ends before the declared form size; a trailing
\* EXIF or XMP chunk that the form body itself cuts short counts as absent
\* and the parse succeeds with the payload
C3_ShortChunk ==
    image # NotRun =>
      /\ \A t \in {VP8, VP8L, VP8X, ICCP, ALPH} :
           ShortChunk(t) => surface(image) = "NotEnoughData"
      /\ \A t \in {EXIF, XMP} :
           (ShortChunk(t) /\ gen.delta = 1) => surface(image) = "NotEnoughData"
      /\ \A h \in ExtHeads, p \in ExtPayloads,
            m \in {<<EXIF>>, <<XMP>>, <<EXIF, XMP>>} :
           (ShortChunk(m[Len(m)]) /\ gen.delta = 0
                                   /\ gen.shape = h \o p \o m) =>
             image = DoneI(<<>>, Variant(p, Len(h)))

C3_Witness ==
    /\ image.t = "Done"
    /\ ShortChunk(XMP)
    /\ gen.shape = <<VP8X, ALPH, VP8, EXIF, XMP>>

(***************************************************************************)
(* C4.  The first accessor call on a fresh adapter.                        *)
(***************************************************************************)
\* what the claim asks of the first call: an input that does not parse to a
\* lossy payload gives an error, and one that does (and that the bitstream
\* decoder accepts) leaves the adapter Parsed with the decoded frame
TriggersParse ==
    /\ surface(webp_file(file)) # "" => ret'.t = "Err"
    /\ (surface(webp_file(file)) = "" /\ ret'.err # "DecodeError") =>
         /\ have_frame'
         /\ reads' = 1 /\ decodes' = 1
         /\ [ok |-> TRUE, frame |-> frame'] \in DecodeOutcomes

\* C4 as claimed: each of the five accessors triggers the parse
C4_EveryAccessorParses == [][FirstCall => TriggersParse]_vars

\* C4 as amended: dimensions, row_len, read_scanline and read_image trigger
\* the parse; colortype returns Gray(8) without reading or parsing anything
\* and leaves the adapter Unparsed
C4_FourAccessorsParse ==
    [][FirstCall =>
         IF ret'.op = "colortype"
         THEN /\ ret' = Ok("colortype", <<"Gray", 8>>)
              /\ ~have_frame' /\ reads' = 0 /\ r' = file /\ image' = NotRun
         ELSE ret'.op \in ParsingOps /\ TriggersParse]_vars

C4_Witness ==
    /\ ret.op = "read_image" /\ ret.t = "Ok" /\ ret.val # <<>>
    /\ have_frame /\ reads = 1 /\ decoded_rows = 0

(***************************************************************************)
(* C5.  Once the adapter is Parsed it stays Parsed, and no later call      *)
(* reads the input, runs the grammar or the bitstream decoder, or changes  *)
(* the cached frame.                                                       *)
(***************************************************************************)
C5_ParsedIsStable ==
    [][have_frame =>
         /\ have_frame'
         /\ frame' = frame
         /\ r' = r /\ reads' = reads
         /\ image' = image
         /\ decodes' = decodes /\ handed' = handed]_vars

C5_Witness ==
    /\ have_frame /\ reads = 1 /\ decodes = 1
    /\ decoded_rows = 2 /\ ret.op = "dimensions"

(***************************************************************************)
(* C6.  A container that holds a bare VP8L chunk, or VP8X followed         *)
(* directly by VP8L: the first call that parses fails with                 *)
(* UnsupportedError, the bitstream decoder is never invoked and the        *)
(* adapter never becomes Parsed.                                           *)
(***************************************************************************)
LosslessFile ==
    /\ WellFormed
    /\ gen.shape \in {l \o m : l \in {<<VP8L>>, <<VP8X, VP8L>>},
                               m \in {<<>>, <<EXIF>>, <<XMP>>, <<EXIF, XMP>>}}

\* C6: on a Lossless file the first parsing call fails with
\* UnsupportedError; the decoder is never called, the adapter never Parsed
C6_LosslessUnsupported ==
    [][LosslessFile =>
         /\ decodes' = 0 /\ handed' = <<>>
         /\ ~have_frame' /\ frame' = DefaultFrame
         /\ (reads = 0 /\ ret'.op \in ParsingOps) =>
              /\ ret'.t = "Err" /\ ret'.err = "UnsupportedError"
              /\ image'.t = "Done"
              /\ image'.o = Lossless(BodyOf(IF gen.shape[1] = VP8L
                                            THEN 1 ELSE 2))]_vars

C6_Witness ==
    /\ LosslessFile /\ gen.shape = <<VP8X, VP8L>>
    /\ reads = 1 /\ ret.op = "read_image" /\ ret.err = "UnsupportedError"

(***************************************************************************)
(* C7.  chunk_size applied to a buffer that holds the length field, the L  *)
(* bytes of the body and, when L is odd, the pad byte: the body is the L   *)
(* bytes after the length field, the cursor advances by 4 + L (L even) or  *)
(* 4 + L + 1 (L odd), and the value of the pad byte changes nothing.       *)
(***************************************************************************)
\* the buffer holds a whole chunk
WholeChunk ==
    /\ Len(file) >= 4
    /\ Len(file) >= 4 + U32At(file, 0) + (U32At(file, 0) % 2)

\* C7: chunk_size returns the L bytes after the length field and skips the
\* pad byte of an odd L, whatever its value
C7_ChunkGrammar ==
    (chunk # NoChunk /\ WholeChunk) =>
      LET L == U32At(file, 0) IN
      /\ chunk.t = "Done"
      /\ chunk.o = SubSeq(file, 5, 4 + L)
      /\ L % 2 = 0 => chunk.rest = SubSeq(file, 4 + L + 1, Len(file))
      /\ L % 2 = 1 =>
           /\ chunk.rest = SubSeq(file, 4 + L + 2, Len(file))
           /\ \A v \in {0, 1, 255} :
                chunk_size([file EXCEPT ![4 + L + 1] = v]) = chunk

C7_Witness ==
    /\ chunk.t = "Done" /\ Len(chunk.o) = 3 /\ chunk.o # <<7, 7, 7>>
    /\ Len(file) = 8

(***************************************************************************)
(* C8.  The dispatcher chooses by the leading tag of the form body.        *)
(***************************************************************************)
\* the file has the RIFF tag, all the bytes its size field declares and the
\* WEBP tag, and at least 4 bytes after it
HasForm ==
    /\ Len(file) >= 16
    /\ Take(file, 4) = RIFF
    /\ U32At(file, 4) >= 8
    /\ Len(file) >= 8 + U32At(file, 4)
    /\ SubSeq(file, 9, 12) = WEBP
\* the bytes handed to webp_body, and what follows the form
FormBody  == SubSeq(file, 13, 8 + U32At(file, 4))
AfterForm == SubSeq(file, 8 + U32At(file, 4) + 1, Len(file))
\* the form body starts with a whole chunk
LeadingChunkWhole ==
    /\ Len(FormBody) >= 8
    /\ Len(FormBody) >= 8 + U32At(FormBody, 4) + (U32At(FormBody, 4) % 2)
LeadingBody == SubSeq(FormBody, 9, 8 + U32At(FormBody, 4))

\* C8: VP8 gives Lossy(body), VP8L gives Lossless(body), VP8X is left to
\* extended, any other leading tag is an Error (FormatError)
C8_Dispatcher ==
    (image # NotRun /\ HasForm) =>
      /\ (Take(FormBody, 4) = VP8 /\ LeadingChunkWhole) =>
           image = DoneI(AfterForm, Lossy(LeadingBody))
      /\ (Take(FormBody, 4) = VP8L /\ LeadingChunkWhole) =>
           image = DoneI(AfterForm, Lossless(LeadingBody))
      /\ Take(FormBody, 4) = VP8X =>
           /\ Outcome(image) = Outcome(extended(FormBody))
           /\ vp8_chunk(FormBody).t = "Error"
           /\ vp8l_chunk(FormBody).t = "Error"
      /\ Take(FormBody, 4) \notin {VP8, VP8L, VP8X} =>
           /\ image = ErrorI("Alt")
           /\ surface(image) = "FormatError"
      /\ image.t = "Done" =>
           image.o.v \in {"Lossy", "Lossless", "LossyWithAlpha"}

C8_Witness ==
    /\ HasForm /\ Take(FormBody, 4) = VP8
    /\ image.t = "Done" /\ image.o.v = "Lossy" /\ Len(image.o.c) = 2
    /\ Len(FormBody) > 10

(***************************************************************************)
(* C9.  VP8X, then ALPH, then VP8: the parse yields LossyWithAlpha with    *)
(* the VP8 body as its color bytes and the ALPH body as its alpha bytes,   *)
(* and the bitstream decoder is handed the color bytes.                    *)
(***************************************************************************)
AlphaFile == WellFormed /\ gen.shape = <<VP8X, ALPH, VP8>>

\* C9: the first parse gives LossyWithAlpha(VP8 body, ALPH body) and the
\* decoder is handed the VP8 body
C9_AlphaThenColor ==
    [][AlphaFile =>
         /\ (reads = 0 /\ reads' = 1) =>
              /\ image' = DoneI(<<>>, LossyWithAlpha(BodyOf(3), BodyOf(2)))
              /\ decodes' = 1
         /\ decodes' >= 1 => handed' = BodyOf(3)
         /\ BodyOf(3) # BodyOf(2)]_vars

C9_Witness ==
    /\ AlphaFile /\ have_frame /\ decodes = 1
    /\ handed = BodyOf(3) /\ Len(BodyOf(2)) = 2

(***************************************************************************)
(* C10.  Two buffers that agree on their first 8 + form_size bytes parse   *)
(* to the same outcome: whatever follows the declared form is not parsed.  *)
(***************************************************************************)
\* what may follow the form in the other buffer
OtherTails ==
    {<<>>, <<0>>, <<7, 9>>, Chunk(EXIF, <<1>>, 0), Chunk(VP8, <<1, 2>>, 0),
     <<32, 0, 0, 0, 0>>}

\* C10: replacing what follows the declared form by any other tail leaves
\* the outcome of webp_file as it is
C10_FormBounded ==
    (image # NotRun /\ Len(file) >= 8 /\ Len(file) >= 8 + U32At(file, 4)) =>
      \A tail \in OtherTails :
        Outcome(webp_file(Take(file, 8 + U32At(file, 4)) \o tail))
          = Outcome(image)

C10_Witness ==
    /\ image.t = "Done" /\ image.o.v = "LossyWithAlpha"
    /\ Len(file) > 8 + U32At(file, 4)

(***************************************************************************)
(* C11.  The envelope.  A buffer of at least 12 bytes fails with an Error  *)
(* of the tag (FormatError) when its first 4 bytes are not RIFF, or when   *)
(* the form is all there and its first 4 bytes are not WEBP, and with      *)
(* Incomplete (NotEnoughData) when the RIFF tag is right and the size      *)
(* field declares more bytes than follow it.  In each case webp_body is    *)
(* not applied: the chunks after the form tag can be exchanged for any     *)
(* others without a change of the result.                                  *)
(***************************************************************************)
\* what may stand for the chunks after the form tag
OtherChunks ==
    {<<>>, Chunk(VP8, <<1, 2>>, 0), Chunk(VP8L, <<3>>, 0), Chunk(ANIM, <<>>, 0),
     Chunk(VP8X, <<>>, 0) \o Chunk(VP8, <<5>>, 0), <<86, 80>>}
\* the first 12 bytes of the file followed by other chunks
Rechunked(c) == Take(file, 12) \o c

BadRiff == Len(file) >= 12 /\ Take(file, 4) # RIFF
BadWebp(f) ==
    /\ Len(f) >= 12 /\ Take(f, 4) = RIFF
    /\ U32At(f, 4) >= 4 /\ Len(f) >= 8 + U32At(f, 4)
    /\ SubSeq(f, 9, 12) # WEBP
Oversize(f) ==
    /\ Len(f) >= 12 /\ Take(f, 4) = RIFF
    /\ Len(f) < 8 + U32At(f, 4)

Extended == WellFormed /\ Len(gen.shape) >= 1 /\ gen.shape[1] = VP8X
\* the position of the chunk after VP8X and the optional ICCP
PayloadAt == IF Len(gen.shape) >= 2 /\ gen.shape[2] = ICCP THEN 3 ELSE 2
\* the tag of the k-th chunk, <<>> when the file has no k-th chunk
TagAt(k) == IF k <= Len(gen.shape) THEN gen.shape[k] ELSE <<>>

\* C12: the chunk after VP8X and the optional ICCP must open one of the
\* three payload shapes, any other chunk there fails the parse
C12_PayloadChoice ==
    (image # NotRun /\ Extended) =>
      /\ TagAt(PayloadAt) = VP8 =>
           image = DoneI(<<>>, Lossy(BodyOf(PayloadAt)))
      /\ TagAt(PayloadAt) = VP8L =>
           image = DoneI(<<>>, Lossless(BodyOf(PayloadAt)))
      /\ (TagAt(PayloadAt) = ALPH /\ TagAt(PayloadAt + 1) = VP8) =>
           image = DoneI(<<>>, LossyWithAlpha(BodyOf(PayloadAt + 1),
                                              BodyOf(PayloadAt)))
      /\ TagAt(PayloadAt) \in {ANIM, ICCP, EXIF, XMP} =>
           /\ image = ErrorI("Alt")
           /\ surface(image) = "FormatError"
      /\ image.t = "Done" =>
           \/ TagAt(PayloadAt) \in {VP8, VP8L}
           \/ TagAt(PayloadAt) = ALPH /\ TagAt(PayloadAt + 1) = VP8

C12_Witness ==
    /\ Extended /\ gen.shape = <<VP8X, ICCP, ICCP, VP8>>
    /\ image = ErrorI("Alt")

(***************************************************************************)
(* C13.  A well-formed extended file whose form body ends right after the  *)
(* payload, or after a whole EXIF chunk with no XMP chunk: the optional    *)
(* recognizers meet the end of the input, which counts as "absent", and    *)
(* the parse succeeds with the payload.                                    *)
(***************************************************************************)
EndsEarly ==
    /\ WellFormed
    /\ gen.shape \in {h \o p \o m : h \in ExtHeads, p \in ExtPayloads,
                                    m \in {<<>>, <<EXIF>>}}
\* the chunks of the file before its trailing EXIF chunk, if it has one
BeforeExif ==
    IF gen.shape[Len(gen.shape)] = EXIF
    THEN SubSeq(gen.shape, 1, Len(gen.shape) - 1) ELSE gen.shape

\* C13: the parse succeeds with the payload, the whole form body is
\* consumed, and the end of the input is never reported as Incomplete
C13_EndIsAbsent ==
    (image # NotRun /\ EndsEarly) =>
      /\ surface(image) # "NotEnoughData"
      /\ \A h \in ExtHeads, p \in ExtPayloads :
           BeforeExif = h \o p => image = DoneI(<<>>, Variant(p, Len(h)))
      /\ extended(Drop(file, 12)).rest = <<>>
      /\ xmp_chunk(<<>>) = Incomplete /\ exif_chunk(<<>>) = Incomplete

C13_Witness ==
    /\ EndsEarly /\ gen.shape = <<VP8X, ICCP, ALPH, VP8, EXIF>>
    /\ image.t = "Done" /\ image.o.v = "LossyWithAlpha"

(***************************************************************************)
(* C14.  read_image on a Parsed adapter returns the whole cached buffer    *)
(* and moves nothing: the scanline cursor and the frame stay as they are.  *)
(* The row a successful read_scanline delivers is fixed by the cursor, the *)
(* frame and the buffer length alone, whatever call came before it, so     *)
(* read_image calls in between change no row.                              *)
(***************************************************************************)
\* C14: read_image returns ybuf whole and leaves decoded_rows and the frame
\* unchanged; read_scanline delivers the bytes at the cursor
C14_ReadImageIsIndependent ==
    [][/\ (have_frame /\ ret'.op = "read_image") =>
            /\ ret' = Ok("read_image", frame.ybuf)
            /\ Len(ret'.val) = frame.width * frame.height
            /\ decoded_rows' = decoded_rows
            /\ frame' = frame /\ have_frame'
       /\ (ret'.op = "read_scanline" /\ ret'.t = "Ok") =>
            /\ ret'.buf = SubSeq(frame'.ybuf, decoded_rows * ret'.arg + 1,
                                 decoded_rows * ret'.arg + ret'.arg)
            /\ decoded_rows' = decoded_rows + 1]_vars

C14_Witness ==
    /\ have_frame /\ decoded_rows = 2
    /\ ret.op = "read_image" /\ ret.t = "Ok" /\ Len(ret.val) = 4
    /\ frame.height = 2

(***************************************************************************)
(* C15.  Once a call of read_metadata has failed (an Error or Incomplete   *)
(* of the grammar, a Lossless payload, a failure of the bitstream          *)
(* decoder), the adapter is not Parsed and never will be: every later call *)
(* of dimensions, row_len, read_scanline or read_image fails, and the      *)
(* default Frame is never handed out.                                      *)
(***************************************************************************)
\* read_metadata has run and has not left a frame
ParseFailed == reads >= 1 /\ ~have_frame

\* C15: after a failed parse every parsing call fails (the reader is at its
\* end, so with NotEnoughData), the adapter stays Unparsed with the default
\* Frame, and the bitstream decoder is not run again
C15_FailureIsPermanent ==
    [][/\ ParseFailed =>
            /\ ~have_frame' /\ frame' = DefaultFrame
            /\ decodes' = decodes
            /\ decoded_rows' = 0
            /\ ret'.op \in ParsingOps =>
                 /\ ret'.t = "Err"
                 /\ reads' > reads => ret'.err = "NotEnoughData"
       /\ (ret'.op \in ParsingOps /\ ret'.t # "Err") => have_frame']_vars

C15_Witness ==
    /\ ParseFailed /\ reads = 2 /\ decodes = 1
    /\ ret.op = "read_image" /\ ret.err = "NotEnoughData"
    /\ image = IncompleteI /\ r = <<>>

(***************************************************************************)
(* C16.  How often the reader is read and the grammar is run.              *)
(***************************************************************************)
\* C16 as claimed: over any sequence of calls read_to_end and webp_file run
\* at most once
C16_ParseAttemptedOnce == reads <= 1

\* C16 as amended: the adapter becomes Parsed at most once and only by its
\* first run of read_metadata, which is the only one that sees the bytes of
\* the file; no call reads or parses once the adapter is Parsed; but after a
\* failed run every later call of dimensions, row_len, read_scanline or
\* read_image reads the drained reader again and runs webp_file again, on the
\* empty input
C16_ParseRepeatedAfterFailure ==
    [][/\ have_frame' => reads' = 1 /\ decodes' = 1
       /\ have_frame => reads' = reads
       /\ reads' > reads =>
            /\ reads' = reads + 1
            /\ image' = webp_file(r) /\ r' = <<>>
            /\ reads >= 1 => r = <<>> /\ image' = IncompleteI
       /\ (ParseFailed /\ ret'.op \in ParsingOps) => reads' = reads + 1]_vars

C16_Witness ==
    /\ reads = 3 /\ ~have_frame /\ image = IncompleteI
    /\ ret.op = "dimensions" /\ ret.err = "NotEnoughData"
    /\ webp_file(file).t = "Error"

(***************************************************************************)
(* C17.  The alternatives of an alt! all start at the same input.  In a    *)
(* well-formed file with VP8X (and the optional ICCP) followed by ALPH and *)
(* then VP8L, the first alternative consumes ALPH and fails at VP8L; the   *)
(* other two are tried at ALPH again and fail, so the parse is an Error of *)
(* the alt! and not Lossless.  With VP8L alone at that place the third     *)
(* alternative succeeds where the first two have failed.                   *)
(***************************************************************************)
\* the input of the alt! of extended: the form body after VP8X and ICCP
AtPayload ==
    LET x == vp8x_chunk(Drop(file, 12)) IN opt(iccp_chunk(x.rest), x.rest).rest
\* ALPH is matched there and a VP8L chunk follows it
AlphThenLossless ==
    /\ alph_chunk(AtPayload).t = "Done"
    /\ vp8l_chunk(alph_chunk(AtPayload).rest).t = "Done"

\* C17: VP8X, ALPH, VP8L fails with the Error of the alt! (FormatError);
\* VP8X, VP8L and a bare VP8L give Lossless
C17_AlternativesRollBack ==
    (image # NotRun /\ WellFormed) =>
      /\ \A h \in ExtHeads, m \in Trailers :
           gen.shape = h \o <<ALPH, VP8L>> \o m =>
             /\ AlphThenLossless
             /\ image = ErrorI("Alt")
             /\ surface(image) = "FormatError"
      /\ \A h \in ExtHeads, m \in Trailers :
           gen.shape = h \o <<VP8L>> \o m =>
             /\ alph_chunk(AtPayload).t = "Error"
             /\ vp8_chunk(AtPayload).t = "Error"
             /\ image = DoneI(<<>>, Lossless(BodyOf(Len(h) + 1)))
      /\ (Len(gen.shape) >= 1 /\ gen.shape[1] = VP8L) =>
           /\ vp8_chunk(Drop(file, 12)).t = "Error"
           /\ image = DoneI(<<>>, Lossless(BodyOf(1)))

C17_Witness ==
    /\ WellFormed /\ gen.shape = <<VP8X, ALPH, VP8L>>
    /\ AlphThenLossless /\ image = ErrorI("Alt")

(***************************************************************************)
(* C18.  The scanline cursor.                                              *)
(***************************************************************************)
\* C18: decoded_rows is 0 before the first call, never decreases, goes up
\* by exactly 1 on a read_scanline call that returns Ok (which returns the
\* new value), and is left as it is by dimensions, colortype, row_len and
\* read_image and by every call that returns an error
C18_CursorIsMonotonic ==
    [][/\ ret = NoCall => decoded_rows = 0
       /\ decoded_rows' >= decoded_rows
       /\ (ret'.op = "read_scanline" /\ ret'.t = "Ok") =>
            /\ decoded_rows' = decoded_rows + 1
            /\ ret'.val = <<decoded_rows'>>
       /\ ret'.op \in {"dimensions", "colortype", "row_len", "read_image"} =>
            decoded_rows' = decoded_rows
       /\ ret'.t = "Err" => decoded_rows' = decoded_rows
       /\ decoded_rows' # decoded_rows =>
            ret'.op = "read_scanline" /\ ret'.t = "Ok"]_vars

C18_Witness ==
    /\ decoded_rows = 3 /\ frame.height = 2
    /\ ret.op = "read_scanline" /\ ret.err = "ImageEnd"

(***************************************************************************)
(* C19.  The form size is not checked against the chunks that are parsed.  *)
(* In a file whose envelope is right and whose form body starts with the   *)
(* chunks up to a whole payload (a bare VP8 or VP8L; VP8X, the optional    *)
(* ICCP and one of the three payload shapes), the parse succeeds with that *)
(* payload whatever the rest of the form body is.                          *)
(***************************************************************************)
\* the chunk sequences that end with a whole payload
UpToPayload ==
    {<<VP8>>, <<VP8L>>} \cup {h \o p : h \in ExtHeads, p \in ExtPayloads}
\* the payload a sequence of UpToPayload stands for
PayloadOf(u) ==
    CASE u[Len(u)] = VP8L -> Lossless(BodyOf(Len(u)))
      [] Len(u) >= 2 /\ u[Len(u) - 1] = ALPH ->
           LossyWithAlpha(BodyOf(Len(u)), BodyOf(Len(u) - 1))
      [] OTHER -> Lossy(BodyOf(Len(u)))
\* what the rest of the form body may be
FormTails ==
    {<<>>, <<0>>, <<69>>, <<69, 88, 73, 70, 9>>, EXIF \o LE32(200),
     Chunk(XMP, <<1>>, 0) \o Chunk(EXIF, <<>>, 0), Chunk(VP8, <<1, 2>>, 0),
     Chunk(ANIM, <<>>, 0), XMP \o LE32(1)}
\* the file with the chunks u and the rest m in its form body
FileUpTo(u, m) ==
    LET body == WEBP \o Chunks(u, 1, gen.l0, gen.step, gen.pad) \o m
    IN  RIFF \o LE32(Len(body)) \o body
\* the form body of the file starts with the chunks u, all there
StartsWith(u) ==
    /\ gen.riff = RIFF /\ gen.form = WEBP /\ gen.delta = 0
    /\ Len(gen.shape) >= Len(u)
    /\ SubSeq(gen.shape, 1, Len(u)) = u
    /\ gen.short = 0 \/ Len(gen.shape) > Len(u)

\* C19: the parse gives the payload of u, for the file itself and for every
\* other rest of the form body
C19_FormSizeNotValidated ==
    image # NotRun =>
      \A u \in UpToPayload :
        StartsWith(u) =>
          /\ image = DoneI(<<>>, PayloadOf(u))
          /\ \A m \in FormTails :
               webp_file(FileUpTo(u, m)) = DoneI(<<>>, PayloadOf(u))

C19_Witness ==
    /\ StartsWith(<<VP8X, VP8>>) /\ gen.shape = <<VP8X, VP8, ANIM>>
    /\ gen.short = 1
    /\ image = DoneI(<<>>, Lossy(BodyOf(2)))
    /\ extended(Drop(file, 12)).rest # <<>>
====
